---- MODULE Spec2Model ----
(***************************************************************************)
(* A model of the stream operators of lz_stream_tools: group_by, latest,   *)
(* enumerate and with_latest_from.  Every operator wraps a futures 0.1 Stream, whose  *)
(* poll() answers an item, the end of the stream, NotReady or an error.     *)
(***************************************************************************)
EXTENDS Integers, Sequences, FiniteSets, TLC

\* The number of events (items, errors) a source stream delivers in a run.
MaxArrivals == 3

\* The lengths of the words the group_by source delivers: those of the crate's
\* tests, "A", "AB", "C", "ABC".
Lengths == {1, 2, 3}

\* The n-th event of the source, when an item: a word of its own letter n, of
\* one of the lengths, so that all the items of a run differ.
Word(n, len) == [i \in 1..len |-> n]
Items(n) == {Word(n, len) : len \in Lengths}

\* The error a source stream can report.
Errors == {"E"}

(***************************************************************************)
(* Option<T> and Poll<Option<T>, E>                                         *)
(***************************************************************************)
None == <<>>
Some(x) == <<x>>

NotReady == <<"NotReady", <<>>>>
Ready(o) == <<"Ready", o>>
Err(e) == <<"Err", <<e>>>>
\* The panic of an unreachable!() branch.
Unreachable == <<"Panic", <<>>>>

IsItem(r) == r[1] = "Ready" /\ r[2] # None
IsEnd(r) == r[1] = "Ready" /\ r[2] = None
IsErr(r) == r[1] = "Err"
IsNotReady(r) == r[1] = "NotReady"

(***************************************************************************)
(* A source stream: the events it has ready, in order, and whether it has   *)
(* been closed.  Polling takes the first ready event; with none ready the   *)
(* stream answers the end once closed and NotReady before.                  *)
(* sent counts the events the stream was given, polls the polls of the      *)
(* stream in the call of the operator that was the last step (0 after any   *)
(* other step).                                                             *)
(***************************************************************************)
NewStream == [buf |-> <<>>, closed |-> FALSE, sent |-> 0, polls |-> 0]

\* The stream is given one more event, or is closed.
Yield(s, ev) == [s EXCEPT !.buf = Append(@, ev), !.sent = @ + 1, !.polls = 0]
Close(s) == [s EXCEPT !.closed = TRUE, !.polls = 0]

StreamPoll(s) ==
    LET polled == [s EXCEPT !.polls = @ + 1] IN
    IF s.buf # <<>>
    THEN [res |-> Head(s.buf), stream |-> [polled EXCEPT !.buf = Tail(@)]]
    ELSE IF s.closed
         THEN [res |-> Ready(None), stream |-> polled]
         ELSE [res |-> NotReady, stream |-> polled]

\* A stream as a call of the operator finds it.
Called(s) == [s EXCEPT !.polls = 0]

(***************************************************************************)
(* group_by                                                                 *)
(***************************************************************************)
VARIABLES
    stream,          \* GroupByState.stream
    pending_items,   \* GroupByState.pending_items: per slot, Some(queue) or None
    group_indices,   \* GroupByState.group_indices: key -> slot index (from 0)
    pending_groups,  \* GroupByState.pending_groups: Ok(key, group) or Err
    handles,         \* per slot, where its Group handle is: pending, held, dropped
    pulled,          \* history: what the source has answered, items and errors
    returned,        \* history: per slot, the items its Group handle returned
    ended,           \* history: per slot, its Group handle has reported the end
    announced,       \* history: the groups and errors the GroupBy returned
    group_by_ended,  \* history: the GroupBy has reported the end
    discarded,       \* history: the items pulled for a slot that was None
    released,        \* history: the items a slot held when its handle was dropped
    ret              \* the last step (source, group_by, group, drop), its result,
                     \* and whether it met an error of the source

gbvars == <<stream, pending_items, group_indices, pending_groups, handles,
            pulled, returned, ended, announced, group_by_ended, discarded,
            released, ret>>

VARIABLES
    latest,          \* Latest { stream }
    lt_taken,        \* the events the last call of Latest::poll took from the stream
    lt_returned,     \* history: the items Latest::poll returned
    lt_lost,         \* history: the items taken by calls that returned an error
    lt_ret           \* the last step (source, poll) and its result

ltvars == <<latest, lt_taken, lt_returned, lt_lost, lt_ret>>

VARIABLES
    left,            \* the stream given to with_latest_from as self
    right,           \* the stream given to with_latest_from as other
    wl_state,        \* WithLatestFrom.state
    wl_taken,        \* the events the last call took from left and from right
    emitted,         \* history: the pairs WithLatestFrom::poll returned
    yielded,         \* history: the last item other.latest() yielded, if any
    terminal,        \* history: the join has returned an error or the end
    rights_at,       \* history: per event of left, the events right had been
                     \* given before it (kept while paced is not late)
    paced,           \* history: polled (after every event so far), event (one
                     \* event since the last poll) or late (two in a row, once)
    ends,            \* history: left, right and other.latest() have reported
                     \* the end of the stream to a poll
    wl_ret           \* the last step (source, poll), its result, and what
                     \* terminal, ends and latest_value were before it

wlvars == <<left, right, wl_state, wl_taken, emitted, yielded, terminal, rights_at,
            paced, ends, wl_ret>>

VARIABLES
    enumerate,       \* Enumerate { stream, i }
    en_pulled,       \* history: the events Enumerate::poll took from the stream
    en_returned,     \* history: the pairs Enumerate::poll returned
    en_ret           \* the last step (source, poll), its result, and what i
                     \* was before it

envars == <<enumerate, en_pulled, en_returned, en_ret>>

vars == <<gbvars, ltvars, wlvars, envars>>

\* The classifier of the crate's tests: |s| s.len()
callback(item) == Len(item)

\* The announcement of a new group, a pending group handle and its key.
OkGroup(key, index) == <<"Ok", <<key, index>>>>

GroupByState == [stream |-> Called(stream), pending_items |-> pending_items,
                 group_indices |-> group_indices, pending_groups |-> pending_groups]

\* state.group_indices.get(&key)
get_index(state, key) ==
    IF key \in DOMAIN state.group_indices THEN Some(state.group_indices[key]) ELSE None

\* A bug: the item of another group goes to the front of its queue.
push_existing_front(state, existing_index, item) ==
    IF existing_index + 1 \notin DOMAIN state.pending_items
    THEN [ok |-> FALSE, state |-> state]
    ELSE IF state.pending_items[existing_index + 1] # None
    THEN [ok |-> TRUE,
          state |-> [state EXCEPT !.pending_items[existing_index + 1] =
                                      Some(<<item>> \o @[1])]]
    ELSE [ok |-> TRUE, state |-> state]

\* A bug: the item of another group is not kept.
push_existing_discard(state, existing_index, item) ==
    IF existing_index + 1 \notin DOMAIN state.pending_items
    THEN [ok |-> FALSE, state |-> state]
    ELSE [ok |-> TRUE, state |-> state]

\* A bug: the slot of a dropped group is taken to hold a queue still.
push_existing_unwrap(state, existing_index, item) ==
    IF existing_index + 1 \notin DOMAIN state.pending_items
    THEN [ok |-> FALSE, state |-> state]
    ELSE IF state.pending_items[existing_index + 1] # None
    THEN [ok |-> TRUE,
          state |-> [state EXCEPT !.pending_items[existing_index + 1] =
                                      Some(Append(@[1], item))]]
    ELSE [ok |-> FALSE, state |-> state]

\* An item of an existing group: pushed to the back of the queue of its slot,
\* discarded if the slot is None; with no such slot the call panics (ok is
\* FALSE).
push_existing(state, existing_index, item) ==
    IF existing_index + 1 \notin DOMAIN state.pending_items
    THEN [ok |-> FALSE, state |-> state]
    ELSE IF state.pending_items[existing_index + 1] # None
    THEN [ok |-> TRUE,
          state |-> [state EXCEPT !.pending_items[existing_index + 1] =
                                      Some(Append(@[1], item))]]
    ELSE [ok |-> TRUE, state |-> state]

\* A bug: the key of a new group is not recorded.
insert_group_unrecorded(state, key, item) ==
    [state EXCEPT !.pending_items = Append(@, Some(<<item>>))]

\* A bug: the slot of a new group starts empty, its first item is not kept.
insert_group_empty(state, key, item) ==
    LET index == Len(state.pending_items) IN
    [state EXCEPT !.pending_items = Append(@, Some(<<>>)),
                  !.group_indices = [k \in DOMAIN @ \cup {key} |->
                                        IF k = key THEN index ELSE @[k]]]

\* A bug: the index of a new group is taken after the push of its slot.
insert_group_after(state, key, item) ==
    LET index == Len(state.pending_items) + 1 IN
    [state EXCEPT !.pending_items = Append(@, Some(<<item>>)),
                  !.group_indices = [k \in DOMAIN @ \cup {key} |->
                                        IF k = key THEN index ELSE @[k]]]

\* An item of a new group: a new slot holding the item, and the key's index.
insert_group(state, key, item) ==
    LET index == Len(state.pending_items) IN
    [state EXCEPT !.pending_items = Append(@, Some(<<item>>)),
                  !.group_indices = [k \in DOMAIN @ \cup {key} |->
                                        IF k = key THEN index ELSE @[k]]]

\* A bug: the announcement is not kept.
push_pending_group_lost(state, x) == state

\* state.pending_groups.push(x)
push_pending_group(state, x) ==
    [state EXCEPT !.pending_groups = Append(@, x)]

\* state.pending_groups.pop(): the announcement taken, and what is left.
pop_pending_group(pending) ==
    [taken |-> pending[Len(pending)], rest |-> SubSeq(pending, 1, Len(pending) - 1)]

\* The loop of poll_next_group_item; each further turn of the loop starts from
\* the state the turn before it left (next).
RECURSIVE group_item_loop(_, _)
group_item_loop(state, index) ==
    LET p == StreamPoll(state.stream)
        s1 == [state EXCEPT !.stream = p.stream]
    IN  IF IsItem(p.res)
        THEN LET item == p.res[2][1]
                 key == callback(item)
                 existing_index == get_index(s1, key)
             IN  IF existing_index # None /\ existing_index[1] = index
                 THEN [state |-> s1, res |-> Ready(Some(item))]
                 ELSE IF existing_index # None
                 THEN LET pushed == push_existing(s1, existing_index[1], item) IN
                      IF pushed.ok
                      THEN CHOOSE out \in {group_item_loop(next, index) :
                                               next \in {pushed.state}} : TRUE
                      ELSE [state |-> s1, res |-> Unreachable]
                 ELSE CHOOSE out \in {group_item_loop(next, index) :
                          next \in {push_pending_group(
                                        insert_group(s1, key, item),
                                        OkGroup(key, Len(s1.pending_items)))}} : TRUE
        ELSE IF IsErr(p.res)
        THEN [state |-> push_pending_group(s1, p.res), res |-> Ready(None)]
        ELSE [state |-> s1, res |-> p.res]

\* A bug: the call returns the front item of its queue and empties the queue.
poll_next_group_item_all(state, index) ==
    LET own == state.pending_items[index + 1] IN
    IF own = None
    THEN [state |-> state, res |-> Unreachable]
    ELSE IF own[1] # <<>>
    THEN [state |-> [state EXCEPT !.pending_items[index + 1] = Some(<<>>)],
          res |-> Ready(Some(Head(own[1])))]
    ELSE group_item_loop(state, index)

poll_next_group_item(state, index) ==
    LET own == state.pending_items[index + 1] IN
    IF own = None
    THEN [state |-> state, res |-> Unreachable]
    ELSE IF own[1] # <<>>
    THEN [state |-> [state EXCEPT !.pending_items[index + 1] = Some(Tail(own[1]))],
          res |-> Ready(Some(Head(own[1])))]
    ELSE group_item_loop(state, index)

\* The loop of poll_next_group.
RECURSIVE group_loop(_)
group_loop(state) ==
    LET p == StreamPoll(state.stream)
        s1 == [state EXCEPT !.stream = p.stream]
    IN  IF IsItem(p.res)
        THEN LET item == p.res[2][1]
                 key == callback(item)
                 existing_index == get_index(s1, key)
             IN  IF existing_index # None
                 THEN LET pushed == push_existing(s1, existing_index[1], item) IN
                      IF pushed.ok
                      THEN CHOOSE out \in {group_loop(next) :
                                               next \in {pushed.state}} : TRUE
                      ELSE [state |-> s1, res |-> Unreachable]
                 ELSE [state |-> insert_group(s1, key, item),
                       res |-> Ready(Some(<<key, Len(s1.pending_items)>>))]
        ELSE [state |-> s1, res |-> p.res]

poll_next_group(state) ==
    IF state.pending_groups # <<>>
    THEN LET popped == pop_pending_group(state.pending_groups) IN
         [state |-> [state EXCEPT !.pending_groups = popped.rest],
          res |-> IF popped.taken[1] = "Ok"
                  THEN Ready(Some(popped.taken[2]))
                  ELSE popped.taken]
    ELSE group_loop(state)

\* A bug: the drop empties the queue of the slot and leaves it in place.
drop_group_clear(items, index) == [items EXCEPT ![index + 1] = Some(<<>>)]

\* A bug: the drop clears the first slot, not the slot of the handle.
drop_group_first(items, index) == [items EXCEPT ![1] = None]

\* Drop for Group
drop_group(items, index) == [items EXCEPT ![index + 1] = None]

(***************************************************************************)
(* The callers of group_by: the source delivers events and closes, the      *)
(* GroupBy and the Group handles are polled, Group handles are dropped.     *)
(***************************************************************************)
GroupByInit ==
    /\ stream = NewStream
    /\ pending_items = <<>>
    /\ group_indices = <<>>
    /\ pending_groups = <<>>
    /\ handles = <<>>
    /\ pulled = <<>>
    /\ returned = <<>>
    /\ ended = <<>>
    /\ announced = <<>>
    /\ group_by_ended = FALSE
    /\ discarded = <<>>
    /\ released = <<>>
    /\ ret = [op |-> "new", res |-> NotReady, err |-> FALSE]

\* What a call took from the source: the events that left its buffer.
Taken(before, after) == SubSeq(before.buf, 1, Len(before.buf) - Len(after.buf))

\* A call met an error of the source.
MetError(taken) == \E n \in DOMAIN taken : IsErr(taken[n])

\* The items of a sequence of events, and those of them of one key.
ItemsOf(events) ==
    LET sel == SelectSeq(events, IsItem) IN [i \in 1..Len(sel) |-> sel[i][2][1]]
OfKey(items, key) == SelectSeq(items, LAMBDA x : callback(x) = key)

\* A key whose slot is None before a call: its Group handle was dropped.
Tombstoned(key) ==
    /\ key \in DOMAIN group_indices
    /\ pending_items[group_indices[key] + 1] = None

\* The items a call pulled for keys whose slot was None.
DiscardedBy(taken) == SelectSeq(ItemsOf(taken), LAMBDA x : Tombstoned(callback(x)))

\* The handles after a call: a new slot's handle is pending, unless the call
\* returned it; the handle of the group the GroupBy returned is held.
HandlesAfter(state, res, fromGroupBy) ==
    [i \in 1..Len(state.pending_items) |->
        IF fromGroupBy /\ IsItem(res) /\ res[2][1][2] = i - 1 THEN "held"
        ELSE IF i <= Len(handles) THEN handles[i]
        ELSE "pending"]

Grown(seq, state, x) ==
    [i \in 1..Len(state.pending_items) |-> IF i <= Len(seq) THEN seq[i] ELSE x]

Install(state) ==
    /\ stream' = state.stream
    /\ pending_items' = state.pending_items
    /\ group_indices' = state.group_indices
    /\ pending_groups' = state.pending_groups

SourceYield(ev) ==
    /\ ~stream.closed
    /\ stream.sent < MaxArrivals
    /\ stream' = Yield(stream, ev)
    /\ ret' = [op |-> "source", res |-> NotReady, err |-> FALSE]
    /\ UNCHANGED <<ltvars, wlvars, envars>>
    /\ UNCHANGED <<pending_items, group_indices, pending_groups, handles, pulled,
                   returned, ended, announced, group_by_ended, discarded, released>>

SourceClose ==
    /\ ~stream.closed
    /\ stream' = Close(stream)
    /\ ret' = [op |-> "source", res |-> NotReady, err |-> FALSE]
    /\ UNCHANGED <<ltvars, wlvars, envars>>
    /\ UNCHANGED <<pending_items, group_indices, pending_groups, handles, pulled,
                   returned, ended, announced, group_by_ended, discarded, released>>

\* GroupBy::poll
PollGroupBy ==
    \E out \in {poll_next_group(GroupByState)} :
    /\ Install(out.state)
    /\ handles' = HandlesAfter(out.state, out.res, TRUE)
    /\ pulled' = pulled \o Taken(stream, out.state.stream)
    /\ discarded' = discarded \o DiscardedBy(Taken(stream, out.state.stream))
    /\ released' = released
    /\ returned' = Grown(returned, out.state, <<>>)
    /\ ended' = Grown(ended, out.state, FALSE)
    /\ announced' = IF IsItem(out.res) \/ IsErr(out.res)
                    THEN Append(announced, out.res) ELSE announced
    /\ group_by_ended' = (group_by_ended \/ IsEnd(out.res))
    /\ ret' = [op |-> "group_by", res |-> out.res,
               err |-> MetError(Taken(stream, out.state.stream))]
    /\ UNCHANGED <<ltvars, wlvars, envars>>

\* Group::poll
PollGroup(index) ==
    /\ index + 1 \in DOMAIN handles
    /\ handles[index + 1] = "held"
    /\ \E out \in {poll_next_group_item(GroupByState, index)} :
       /\ Install(out.state)
       /\ handles' = HandlesAfter(out.state, out.res, FALSE)
       /\ pulled' = pulled \o Taken(stream, out.state.stream)
       /\ discarded' = discarded \o DiscardedBy(Taken(stream, out.state.stream))
       /\ released' = released
       /\ returned' = [Grown(returned, out.state, <<>>) EXCEPT ![index + 1] =
                          IF IsItem(out.res) THEN Append(@, out.res[2][1]) ELSE @]
       /\ ended' = [Grown(ended, out.state, FALSE) EXCEPT ![index + 1] =
                          @ \/ IsEnd(out.res)]
       /\ ret' = [op |-> "group", res |-> out.res,
                  err |-> MetError(Taken(stream, out.state.stream))]
    /\ UNCHANGED <<announced, group_by_ended, ltvars, wlvars, envars>>

\* drop(group)
DropGroup(index) ==
    /\ index + 1 \in DOMAIN handles
    /\ handles[index + 1] = "held"
    /\ pending_items' = drop_group(pending_items, index)
    /\ handles' = [handles EXCEPT ![index + 1] = "dropped"]
    /\ released' = released \o pending_items[index + 1][1]
    /\ ret' = [op |-> "drop", res |-> NotReady, err |-> FALSE]
    /\ stream' = Called(stream)
    /\ UNCHANGED <<group_indices, pending_groups, pulled, returned, ended,
                   announced, group_by_ended, discarded, ltvars, wlvars, envars>>

\* The events the source can deliver as its n-th.
SourceEvents(n) == {Ready(Some(i)) : i \in Items(n)} \cup {Err(e) : e \in Errors}

GroupByNext ==
    \/ \E ev \in SourceEvents(stream.sent + 1) : SourceYield(ev)
    \/ SourceClose
    \/ PollGroupBy
    \/ \E index \in 0..(MaxArrivals - 1) : PollGroup(index)
    \/ \E index \in 0..(MaxArrivals - 1) : DropGroup(index)

(***************************************************************************)
(* latest                                                                   *)
(***************************************************************************)
\* The number of events each stream of latest and with_latest_from delivers.
MaxEvents == 3

\* The items of the stream latest() wraps, in order: the n-th is the n-th letter.
Letters == <<"A", "B", "C", "D", "E", "F", "G", "H">>

\* A bug: the first item of a burst is kept, not the last.
RECURSIVE latest_loop_first(_, _)
latest_loop_first(stream_, latest_) ==
    LET p == StreamPoll(stream_) IN
    IF IsItem(p.res)
    THEN latest_loop_first(p.stream, latest_)
    ELSE IF IsErr(p.res)
    THEN [stream |-> p.stream, res |-> p.res]
    ELSE [stream |-> p.stream, res |-> Ready(Some(latest_))]

\* A bug: an error ends a burst as the end of the stream does.
RECURSIVE latest_loop_swallow(_, _)
latest_loop_swallow(stream_, latest_) ==
    LET p == StreamPoll(stream_) IN
    IF IsItem(p.res)
    THEN latest_loop_swallow(p.stream, p.res[2][1])
    ELSE [stream |-> p.stream, res |-> Ready(Some(latest_))]

\* The loop of Latest::poll, with the value held in latest.
RECURSIVE latest_loop(_, _)
latest_loop(stream_, latest_) ==
    LET p == StreamPoll(stream_) IN
    IF IsItem(p.res)
    THEN latest_loop(p.stream, p.res[2][1])
    ELSE IF IsErr(p.res)
    THEN [stream |-> p.stream, res |-> p.res]
    ELSE [stream |-> p.stream, res |-> Ready(Some(latest_))]

\* Latest::poll
Latest_poll(self) ==
    LET p == StreamPoll(self.stream) IN
    IF IsItem(p.res)
    THEN LET out == latest_loop(p.stream, p.res[2][1]) IN
         [self |-> [stream |-> out.stream], res |-> out.res]
    ELSE [self |-> [stream |-> p.stream], res |-> p.res]

\* Latest::new
LatestInit ==
    /\ latest = [stream |-> NewStream]
    /\ lt_taken = <<>>
    /\ lt_returned = <<>>
    /\ lt_lost = <<>>
    /\ lt_ret = [op |-> "new", res |-> NotReady]

\* The events the stream under latest() can deliver as its n-th.
LetterEvents(n) == {Ready(Some(Letters[n]))} \cup {Err(e) : e \in Errors}

LatestSourceYield(ev) ==
    /\ ~latest.stream.closed
    /\ latest.stream.sent < MaxEvents
    /\ latest' = [stream |-> Yield(latest.stream, ev)]
    /\ lt_taken' = <<>>
    /\ lt_ret' = [op |-> "source", res |-> NotReady]
    /\ UNCHANGED <<lt_returned, lt_lost, gbvars, wlvars, envars>>

LatestSourceClose ==
    /\ ~latest.stream.closed
    /\ latest' = [stream |-> Close(latest.stream)]
    /\ lt_taken' = <<>>
    /\ lt_ret' = [op |-> "source", res |-> NotReady]
    /\ UNCHANGED <<lt_returned, lt_lost, gbvars, wlvars, envars>>

\* A call of Latest::poll
PollLatest ==
    LET out == Latest_poll([stream |-> Called(latest.stream)]) IN
    /\ latest' = out.self
    /\ lt_taken' = Taken(latest.stream, out.self.stream)
    /\ lt_returned' = IF IsItem(out.res)
                      THEN Append(lt_returned, out.res[2][1]) ELSE lt_returned
    /\ lt_lost' = IF IsErr(out.res)
                  THEN lt_lost \o ItemsOf(Taken(latest.stream, out.self.stream))
                  ELSE lt_lost
    /\ lt_ret' = [op |-> "poll", res |-> out.res]
    /\ UNCHANGED <<gbvars, wlvars, envars>>

LatestNext ==
    \/ \E ev \in LetterEvents(latest.stream.sent + 1) : LatestSourceYield(ev)
    \/ LatestSourceClose
    \/ PollLatest


(***************************************************************************)
(* enumerate                                                                *)
(***************************************************************************)
\* A bug: the counter is advanced before it is read.
map_item_after(self, x) ==
    [i |-> self.i + 1, item |-> <<self.i + 1, x>>]

\* The closure given to next.map: the item paired with the counter, and the
\* counter advanced by one.  The counter is a usize: index + 1 leaves its
\* range after 2^64 items only, far beyond the streams checked here.
map_item(self, x) ==
    LET index == self.i IN
    [i |-> index + 1, item |-> <<index, x>>]

\* Enumerate::poll
Enumerate_poll(self) ==
    LET p == StreamPoll(self.stream) IN
    IF IsItem(p.res)
    THEN LET mapped == map_item(self, p.res[2][1]) IN
         [self |-> [stream |-> p.stream, i |-> mapped.i],
          res |-> Ready(Some(mapped.item))]
    ELSE [self |-> [stream |-> p.stream, i |-> self.i], res |-> p.res]

\* Enumerate::new
EnumerateInit ==
    /\ enumerate = [stream |-> NewStream, i |-> 0]
    /\ en_pulled = <<>>
    /\ en_returned = <<>>
    /\ en_ret = [op |-> "new", res |-> NotReady, i |-> 0]

EnumerateSourceYield(ev) ==
    /\ ~enumerate.stream.closed
    /\ enumerate.stream.sent < MaxEvents
    /\ enumerate' = [enumerate EXCEPT !.stream = Yield(@, ev)]
    /\ en_ret' = [op |-> "source", res |-> NotReady, i |-> enumerate.i]
    /\ UNCHANGED <<en_pulled, en_returned, gbvars, ltvars, wlvars>>

EnumerateSourceClose ==
    /\ ~enumerate.stream.closed
    /\ enumerate' = [enumerate EXCEPT !.stream = Close(@)]
    /\ en_ret' = [op |-> "source", res |-> NotReady, i |-> enumerate.i]
    /\ UNCHANGED <<en_pulled, en_returned, gbvars, ltvars, wlvars>>

\* A call of Enumerate::poll
PollEnumerate ==
    LET out == Enumerate_poll([enumerate EXCEPT !.stream = Called(@)]) IN
    /\ enumerate' = out.self
    /\ en_pulled' = en_pulled \o Taken(enumerate.stream, out.self.stream)
    /\ en_returned' = IF IsItem(out.res)
                      THEN Append(en_returned, out.res[2][1]) ELSE en_returned
    /\ en_ret' = [op |-> "poll", res |-> out.res, i |-> enumerate.i]
    /\ UNCHANGED <<gbvars, ltvars, wlvars>>

EnumerateNext ==
    \/ \E ev \in LetterEvents(enumerate.stream.sent + 1) : EnumerateSourceYield(ev)
    \/ EnumerateSourceClose
    \/ PollEnumerate

(***************************************************************************)
(* with_latest_from                                                         *)
(***************************************************************************)
\* The errors of the two streams of a join.
LeftErrors == {"E1"}
RightErrors == {"E2"}

\* WithLatestFromState::Done
Done == [tag |-> "Done"]

\* WithLatestFromState::InProgress { stream, other, latest_value }; of the two
\* Fuse wrappers the state keeps the done flag, the streams under them being
\* left and right.
InProgress(stream_, other_, latest_value) ==
    [tag |-> "InProgress", stream |-> stream_, other |-> other_,
     latest_value |-> latest_value]

\* Fuse::poll, of futures: self is the Fuse, inner the stream under it and
\* polled what a poll of inner gives. Once inner has reported the end, the
\* Fuse answers the end without polling it.
Fuse_poll(self, inner, polled) ==
    IF self.done
    THEN [self |-> self, stream |-> inner, res |-> Ready(None)]
    ELSE [self |-> [done |-> IsEnd(polled.res)], stream |-> polled.stream,
          res |-> polled.res]

\* A poll of other.latest(), over the stream other.
Latest_stream_poll(other_) ==
    LET out == Latest_poll([stream |-> other_]) IN
    [stream |-> out.self.stream, res |-> out.res]

\* A bug: the state is matched in place, not replaced by Done.
mem_replace_kept(self) == self

\* mem::replace(&mut self.state, WithLatestFromState::Done): what self.state
\* holds until an arm of the match assigns it.
mem_replace(self) == Done

\* A bug: only an error of the main stream is looked at.
round_error_left(sp, op) == IF IsErr(sp) THEN Some(sp) ELSE None

\* The first two arms of the match: the error of a round, if any.
round_error(sp, op) ==
    IF IsErr(sp) THEN Some(sp) ELSE IF IsErr(op) THEN Some(op) ELSE None

\* A bug: a cached value is preferred to the value of this round.
paired_value_cached(op, latest_value) ==
    IF latest_value # None THEN latest_value
    ELSE IF IsItem(op) THEN op[2] ELSE None

\* The value an item of the main stream is paired with: the one other yielded
\* in this round, else the cached one, if any.
paired_value(op, latest_value) ==
    IF IsItem(op) THEN op[2] ELSE latest_value

\* A bug: with no value of other to come, a call stops at the first item of
\* the main stream and answers NotReady.
WithLatestFrom_poll_once(self, left_, right_) ==
    IF self.tag = "Done"
    THEN [state |-> Done, left |-> left_, right |-> right_, res |-> Ready(None)]
    ELSE
    LET sp == Fuse_poll(self.stream, left_, StreamPoll(left_))
        op == Fuse_poll(self.other, right_, Latest_stream_poll(right_))
        error == round_error(sp.res, op.res)
        value == paired_value(op.res, self.latest_value)
    IN  IF error # None
        THEN [state |-> Done, left |-> sp.stream, right |-> op.stream,
              res |-> error[1]]
        ELSE IF IsEnd(sp.res)
        THEN [state |-> Done, left |-> sp.stream, right |-> op.stream,
              res |-> Ready(None)]
        ELSE IF IsItem(sp.res) /\ value # None
        THEN [state |-> InProgress(sp.self, op.self, Some(value[1])),
              left |-> sp.stream, right |-> op.stream,
              res |-> Ready(Some(<<sp.res[2][1], value[1]>>))]
        ELSE IF IsNotReady(sp.res) /\ ~IsNotReady(op.res)
        THEN [state |-> InProgress(sp.self, op.self, op.res[2]),
              left |-> sp.stream, right |-> op.stream, res |-> NotReady]
        ELSE [state |-> InProgress(sp.self, op.self, self.latest_value),
              left |-> sp.stream, right |-> op.stream, res |-> NotReady]

\* WithLatestFrom::poll
RECURSIVE WithLatestFrom_poll(_, _, _)
WithLatestFrom_poll(self, left_, right_) ==
    IF self.tag = "Done"
    THEN [state |-> mem_replace(self), left |-> left_, right |-> right_,
          res |-> Ready(None)]
    ELSE
    LET sp == Fuse_poll(self.stream, left_, StreamPoll(left_))
        op == Fuse_poll(self.other, right_, Latest_stream_poll(right_))
        error == round_error(sp.res, op.res)
        value == paired_value(op.res, self.latest_value)
        replaced == mem_replace(InProgress(sp.self, op.self, self.latest_value))
    IN  IF error # None
        THEN [state |-> replaced, left |-> sp.stream, right |-> op.stream,
              res |-> error[1]]
        ELSE IF IsEnd(sp.res)
        THEN [state |-> replaced, left |-> sp.stream, right |-> op.stream,
              res |-> Ready(None)]
        ELSE IF IsItem(sp.res) /\ value # None
        THEN [state |-> InProgress(sp.self, op.self, Some(value[1])),
              left |-> sp.stream, right |-> op.stream,
              res |-> Ready(Some(<<sp.res[2][1], value[1]>>))]
        ELSE IF IsNotReady(sp.res) /\ ~IsNotReady(op.res)
        THEN [state |-> InProgress(sp.self, op.self, op.res[2]),
              left |-> sp.stream, right |-> op.stream, res |-> NotReady]
        ELSE IF IsNotReady(sp.res) \/ IsNotReady(op.res)
        THEN [state |-> InProgress(sp.self, op.self, self.latest_value),
              left |-> sp.stream, right |-> op.stream, res |-> NotReady]
        ELSE WithLatestFrom_poll(InProgress(sp.self, op.self, None),
                                 sp.stream, op.stream)

\* WithLatestFrom::new
WithLatestFromInit ==
    /\ left = NewStream
    /\ right = NewStream
    /\ wl_state = InProgress([done |-> FALSE], [done |-> FALSE], None)
    /\ wl_taken = [left |-> <<>>, right |-> <<>>]
    /\ emitted = <<>>
    /\ yielded = None
    /\ terminal = "no"
    /\ rights_at = <<>>
    /\ paced = "polled"
    /\ ends = [left |-> FALSE, right |-> FALSE, other |-> FALSE]
    /\ wl_ret = [op |-> "new", res |-> NotReady, after |-> "no", ended |-> ends,
                 cache |-> None]

\* The events the main stream can deliver as its n-th: its items are 0, 1, ...
LeftEvents(n) == {Ready(Some(n - 1))} \cup {Err(e) : e \in LeftErrors}
\* The events the other stream can deliver as its n-th: its items are letters.
RightEvents(n) == {Ready(Some(Letters[n]))} \cup {Err(e) : e \in RightErrors}

\* An event of a stream: is the join polled after every event?
Unpaced == IF paced = "polled" THEN "event" ELSE "late"

LeftYield(ev) ==
    /\ ~left.closed
    /\ left.sent < MaxEvents
    /\ left' = Yield(left, ev)
    /\ right' = Called(right)
    /\ rights_at' = IF Unpaced = "late" THEN <<>> ELSE Append(rights_at, right.sent)
    /\ paced' = Unpaced
    /\ wl_taken' = [left |-> <<>>, right |-> <<>>]
    /\ wl_ret' = [op |-> "source", res |-> NotReady, after |-> terminal,
                  ended |-> ends, cache |-> None]
    /\ UNCHANGED <<wl_state, emitted, yielded, terminal, ends, gbvars, ltvars, envars>>

RightYield(ev) ==
    /\ ~right.closed
    /\ right.sent < MaxEvents
    /\ right' = Yield(right, ev)
    /\ left' = Called(left)
    /\ rights_at' = IF Unpaced = "late" THEN <<>> ELSE rights_at
    /\ paced' = Unpaced
    /\ wl_taken' = [left |-> <<>>, right |-> <<>>]
    /\ wl_ret' = [op |-> "source", res |-> NotReady, after |-> terminal,
                  ended |-> ends, cache |-> None]
    /\ UNCHANGED <<wl_state, emitted, yielded, terminal, ends, gbvars, ltvars, envars>>

LeftClose ==
    /\ ~left.closed
    /\ left' = Close(left)
    /\ right' = Called(right)
    /\ rights_at' = IF Unpaced = "late" THEN <<>> ELSE rights_at
    /\ paced' = Unpaced
    /\ wl_taken' = [left |-> <<>>, right |-> <<>>]
    /\ wl_ret' = [op |-> "source", res |-> NotReady, after |-> terminal,
                  ended |-> ends, cache |-> None]
    /\ UNCHANGED <<wl_state, emitted, yielded, terminal, ends, gbvars, ltvars, envars>>

RightClose ==
    /\ ~right.closed
    /\ right' = Close(right)
    /\ left' = Called(left)
    /\ rights_at' = IF Unpaced = "late" THEN <<>> ELSE rights_at
    /\ paced' = Unpaced
    /\ wl_taken' = [left |-> <<>>, right |-> <<>>]
    /\ wl_ret' = [op |-> "source", res |-> NotReady, after |-> terminal,
                  ended |-> ends, cache |-> None]
    /\ UNCHANGED <<wl_state, emitted, yielded, terminal, ends, gbvars, ltvars, envars>>

\* A call polled a stream past its last event, and the stream was closed: it
\* reported its end to the call.
ReportedEnd(before, after) ==
    /\ after.closed
    /\ after.buf = <<>>
    /\ after.polls > Len(Taken(before, after))

\* The value the join has cached, if it is in progress and has one.
CacheOf(self) == IF self.tag = "InProgress" THEN self.latest_value ELSE None

\* What other.latest() yields in a call of the join, if it is polled.
YieldedBy(polled) == IF IsItem(polled.res) THEN polled.res[2] ELSE yielded

\* A call of WithLatestFrom::poll
PollWithLatestFrom ==
    LET out == WithLatestFrom_poll(wl_state, Called(left), Called(right)) IN
    /\ wl_state' = out.state
    /\ left' = out.left
    /\ right' = out.right
    /\ wl_taken' = [left |-> Taken(left, out.left), right |-> Taken(right, out.right)]
    /\ emitted' = IF IsItem(out.res) THEN Append(emitted, out.res[2][1]) ELSE emitted
    /\ yielded' = IF wl_state.tag = "InProgress" /\ ~wl_state.other.done
                  THEN YieldedBy(Latest_stream_poll(right)) ELSE yielded
    /\ terminal' = IF terminal # "no" THEN terminal
                   ELSE IF IsErr(out.res) THEN "error"
                   ELSE IF IsEnd(out.res) THEN "end" ELSE "no"
    /\ paced' = IF paced = "event" THEN "polled" ELSE paced
    /\ ends' = [left |-> ends.left \/ ReportedEnd(left, out.left),
                right |-> ends.right \/ ReportedEnd(right, out.right),
                other |-> ends.other \/ (ReportedEnd(right, out.right)
                                           /\ Taken(right, out.right) = <<>>)]
    /\ wl_ret' = [op |-> "poll", res |-> out.res, after |-> terminal, ended |-> ends,
                  cache |-> CacheOf(wl_state)]
    /\ UNCHANGED <<rights_at, gbvars, ltvars, envars>>

WithLatestFromNext ==
    \/ \E ev \in LeftEvents(left.sent + 1) : LeftYield(ev)
    \/ \E ev \in RightEvents(right.sent + 1) : RightYield(ev)
    \/ LeftClose
    \/ RightClose
    \/ PollWithLatestFrom
(***************************************************************************)
(* The specifications: one operator runs, the others stay as constructed.   *)
(***************************************************************************)
Init == GroupByInit /\ LatestInit /\ WithLatestFromInit /\ EnumerateInit

Spec == Init /\ [][GroupByNext]_vars

LatestSpec == Init /\ [][LatestNext]_vars

WithLatestFromSpec == Init /\ [][WithLatestFromNext]_vars

EnumerateSpec == Init /\ [][EnumerateNext]_vars

(***************************************************************************)
(* group_by read by one consumer: the source is a finite stream of items    *)
(* that is always ready, as stream::iter of the crate's tests.  The      *)
(* GroupBy is polled alone, then one Group handle alone up to its end, and  *)
(* then the GroupBy and every handle.                                       *)
(***************************************************************************)
\* The lengths of the words of a source, one per item.
SourceLengths == UNION {[1..n -> Lengths] : n \in 0..MaxArrivals}

\* stream::iter(words), all of them Ok: every poll answers the next item, or the end.
stream_iter(lengths) ==
    [buf |-> [n \in DOMAIN lengths |-> Ready(Some(Word(n, lengths[n])))],
     closed |-> TRUE, sent |-> Len(lengths), polls |-> 0]

\* GroupBy::new(stream::iter(words), callback)
SingleInit ==
    /\ \E lengths \in SourceLengths : stream = stream_iter(lengths)
    /\ pending_items = <<>>
    /\ group_indices = <<>>
    /\ pending_groups = <<>>
    /\ handles = <<>>
    /\ pulled = <<>>
    /\ returned = <<>>
    /\ ended = <<>>
    /\ announced = <<>>
    /\ group_by_ended = FALSE
    /\ discarded = <<>>
    /\ released = <<>>
    /\ ret = [op |-> "new", res |-> NotReady, err |-> FALSE]
    /\ LatestInit
    /\ WithLatestFromInit
    /\ EnumerateInit

\* The Group handle of a slot has been polled: with a source always ready it
\* has returned an item or the end.
Advanced(i) == returned[i] # <<>> \/ ended[i]

\* The GroupBy is polled, no Group handle having been polled yet; as every
\* stream here, it is polled until it reports the end.
Discover ==
    /\ \A i \in DOMAIN handles : ~Advanced(i)
    /\ ~group_by_ended
    /\ PollGroupBy

\* One Group handle is polled, and no other, until it has reported the end.
AdvanceAlone(index) ==
    /\ \A i \in DOMAIN handles : i # index + 1 => ~Advanced(i)
    /\ index + 1 \in DOMAIN ended
    /\ ~ended[index + 1]
    /\ PollGroup(index)

\* The handle polled alone has reported the end.
AloneEnded == \E i \in DOMAIN ended : ended[i]

\* After that, the GroupBy and every Group handle held are polled, each until
\* it reports the end.
DiscoverAfter ==
    /\ AloneEnded
    /\ ~group_by_ended
    /\ PollGroupBy

AdvanceAfter(index) ==
    /\ AloneEnded
    /\ index + 1 \in DOMAIN ended
    /\ ~ended[index + 1]
    /\ PollGroup(index)

SingleNext ==
    \/ Discover
    \/ \E index \in 0..(MaxArrivals - 1) : AdvanceAlone(index)
    \/ DiscoverAfter
    \/ \E index \in 0..(MaxArrivals - 1) : AdvanceAfter(index)

\* A consumer polls as long as a stream it reads has not reported the end.
SingleConsumerSpec == SingleInit /\ [][SingleNext]_vars /\ WF_vars(SingleNext)

(***************************************************************************)
(* Properties of group_by                                                   *)
(***************************************************************************)
\* The key of a slot, the key whose index it is.
SlotKey(i) == CHOOSE k \in DOMAIN group_indices : group_indices[k] = i - 1

NoErrorPulled == \A n \in DOMAIN pulled : ~IsErr(pulled[n])
NoDrop == \A i \in DOMAIN handles : handles[i] # "dropped"
SourceDone == stream.closed /\ stream.buf = <<>>

\* How often an item was returned, over all the Group handles.
Returns(item) ==
    Cardinality({<<i, n>> \in (DOMAIN returned) \X (1..MaxArrivals + 1) :
                    n \in DOMAIN returned[i] /\ returned[i][n] = item})

\* The consumers have run to the end: the GroupBy has reported the end of the
\* stream, and so has every Group handle that was not dropped.
AllEnded ==
    /\ group_by_ended
    /\ \A i \in DOMAIN handles : handles[i] # "dropped" => (handles[i] = "held" /\ ended[i])

\* C1: with a source that reports no error and no Group handle dropped, once
\* the GroupBy and every Group handle have reported the end of the stream, the
\* Group of each key has returned exactly the source's items of that key, in
\* the order of the source, and every item was returned exactly once.
C1_Partition ==
    (AllEnded /\ NoErrorPulled /\ NoDrop) =>
        /\ SourceDone
        /\ \A x \in {ItemsOf(pulled)[n] : n \in DOMAIN ItemsOf(pulled)} :
              /\ callback(x) \in DOMAIN group_indices
              /\ Returns(x) = 1
        /\ \A i \in DOMAIN returned : returned[i] = OfKey(ItemsOf(pulled), SlotKey(i))

\* A run as that of the crate's test: two items of one key around an item of
\* another, both groups read to the end.
C1_Witness ==
    /\ AllEnded /\ NoErrorPulled /\ NoDrop
    /\ Len(returned) = 2
    /\ returned[1] = <<Word(1, 1), Word(3, 1)>>
    /\ returned[2] = <<Word(2, 2)>>

\* The slot indices of the groups the GroupBy has returned, in order.
AnnouncedGroups == SelectSeq(announced, IsItem)
AnnouncedKey(n) == AnnouncedGroups[n][2][1][1]
AnnouncedIndex(n) == AnnouncedGroups[n][2][1][2]

\* C2: the GroupBy returns the groups in the order in which their keys were
\* first seen in the source, that is in the order of their slot indices.
C2_DiscoveryOrder ==
    \A m, n \in DOMAIN AnnouncedGroups :
        m < n => AnnouncedIndex(m) < AnnouncedIndex(n)

\* C3: no two groups the GroupBy returns have the same key or the same slot
\* index, whoever saw the key first and whether or not its handle was dropped.
C3_AnnouncedOnce ==
    \A m, n \in DOMAIN AnnouncedGroups :
        m # n => /\ AnnouncedKey(m) # AnnouncedKey(n)
                 /\ AnnouncedIndex(m) # AnnouncedIndex(n)

\* A key seen again after its handle was dropped, and several groups returned.
C3_Witness ==
    /\ discarded # <<>>
    /\ Len(AnnouncedGroups) >= 2
    /\ \E n \in DOMAIN AnnouncedGroups :
          /\ handles[AnnouncedIndex(n) + 1] = "dropped"
          /\ \E d \in DOMAIN discarded : callback(discarded[d]) = AnnouncedKey(n)

\* The items a live slot holds.
Queued(i) == IF pending_items[i] = None THEN <<>> ELSE pending_items[i][1]

\* The announcements of a key, pending and returned.
Announcements(key) ==
    Cardinality({n \in DOMAIN pending_groups :
                    pending_groups[n][1] = "Ok" /\ pending_groups[n][2][1] = key})
    + Cardinality({n \in DOMAIN AnnouncedGroups : AnnouncedKey(n) = key})

\* C4: the slot of a dropped Group handle is None in every later state; the
\* items of its key are those its handle returned, those released by the drop
\* and, for all that were pulled since, those discarded: none is in a queue or
\* returned by a handle, and the key has one slot and one announcement.
C4_Tombstone ==
    \A i \in DOMAIN handles : handles[i] = "dropped" =>
        LET key == SlotKey(i) IN
        /\ pending_items[i] = None
        /\ OfKey(ItemsOf(pulled), key) =
              returned[i] \o OfKey(released, key) \o OfKey(discarded, key)
        /\ \A j \in DOMAIN pending_items :
              /\ OfKey(Queued(j), key) = <<>>
              /\ j # i => OfKey(returned[j], key) = <<>>
        /\ Len(pending_items) = Cardinality(DOMAIN group_indices)
        /\ Announcements(key) = 1

\* A handle dropped with an item in its queue, and an item of its key pulled
\* after the drop.
C4_Witness ==
    \E i \in DOMAIN handles :
        /\ handles[i] = "dropped"
        /\ OfKey(released, SlotKey(i)) # <<>>
        /\ OfKey(discarded, SlotKey(i)) # <<>>

Polled == ret.op \in {"group_by", "group"}

\* The groups still read have all their items, and every key was announced.
OthersComplete ==
    /\ SourceDone
    /\ \A i \in DOMAIN handles :
          handles[i] = "held" => returned[i] = OfKey(ItemsOf(pulled), SlotKey(i))
    /\ \A x \in {ItemsOf(pulled)[n] : n \in DOMAIN ItemsOf(pulled)} :
          \E n \in DOMAIN AnnouncedGroups : AnnouncedKey(n) = callback(x)

\* C5: once a Group handle is dropped, with a source that reports no error,
\* no poll panics or stalls on an item of the dropped group: a poll answers
\* NotReady only with the source not ready, and the end only with the source
\* at its end; and once all have reported the end, the handles still held have
\* returned all the items of their keys, in order, and every key was announced.
C5_DropDoesNotBlock ==
    (~NoDrop /\ NoErrorPulled) =>
        /\ ret.res[1] # "Panic"
        /\ (Polled /\ IsNotReady(ret.res)) => (stream.buf = <<>> /\ ~stream.closed)
        /\ (Polled /\ IsEnd(ret.res)) => SourceDone
        /\ AllEnded => OthersComplete

\* A handle dropped with an item in its queue and an item of its key pulled
\* since, another handle read to the end with an item returned.
C5_Witness ==
    /\ AllEnded /\ NoErrorPulled
    /\ discarded # <<>>
    /\ \E i, j \in DOMAIN handles :
          /\ handles[i] = "dropped" /\ OfKey(released, SlotKey(i)) # <<>>
          /\ handles[j] = "held" /\ returned[j] # <<>>

Errs(seq) == Cardinality({n \in DOMAIN seq : IsErr(seq[n])})

\* C10: a Group handle's poll never returns an error; the poll that meets an
\* error of the source returns the end of the stream and leaves the error as
\* the last pending announcement; every error the source reported is pending
\* once or was returned once by the GroupBy.
C10_GroupMeetsError ==
    /\ ret.op = "group" => ~IsErr(ret.res)
    /\ (ret.op = "group" /\ ret.err) =>
          /\ IsEnd(ret.res)
          /\ pending_groups # <<>>
          /\ IsErr(pending_groups[Len(pending_groups)])
    /\ Errs(pulled) = Errs(pending_groups) + Errs(announced)

\* The GroupBy returns an error it did not meet itself: one a Group handle's
\* poll had met and left pending.
C10_Witness ==
    /\ ret.op = "group_by" /\ IsErr(ret.res) /\ ~ret.err
    /\ \E i \in DOMAIN ended : ended[i]
    /\ Errs(pulled) = 1 /\ Errs(announced) = 1

(***************************************************************************)
(* Properties of latest                                                     *)
(***************************************************************************)
AllItems(events) == \A n \in DOMAIN events : IsItem(events[n])

\* The place of an item of the stream under latest() among its events.
Place(letter) == CHOOSE n \in DOMAIN Letters : Letters[n] = letter

\* C6: a call of Latest::poll in which the stream yields N >= 1 items and
\* then is not ready or at its end returns the last of the N and leaves none
\* behind; a call in which the stream yields nothing returns no item (NotReady
\* before the stream's end); so the items returned are in the order of the
\* stream and none is returned twice.
C6_BurstCollapse ==
    /\ (lt_ret.op = "poll" /\ lt_taken # <<>> /\ AllItems(lt_taken)) =>
          /\ IsItem(lt_ret.res)
          /\ lt_ret.res[2][1] = lt_taken[Len(lt_taken)][2][1]
          /\ lt_returned[Len(lt_returned)] = lt_taken[Len(lt_taken)][2][1]
          /\ latest.stream.buf = <<>>
    /\ (lt_ret.op = "poll" /\ lt_taken = <<>>) =>
          /\ ~IsItem(lt_ret.res)
          /\ ~latest.stream.closed => IsNotReady(lt_ret.res)
    /\ \A m, n \in DOMAIN lt_returned :
          m < n => Place(lt_returned[m]) < Place(lt_returned[n])

\* A burst of three items in one call, the third returned and then nothing.
C6_Witness ==
    /\ lt_ret.op = "poll" /\ IsNotReady(lt_ret.res)
    /\ latest.stream.sent = 3
    /\ lt_returned = <<"C">>

(***************************************************************************)
(* Properties of with_latest_from                                           *)
(***************************************************************************)
WlPolled == wl_ret.op = "poll"

\* The pair a call returned.
Pair == wl_ret.res[2][1]

\* The items of left the join has taken, by their place among left's events.
Consumed == left.sent - Len(left.buf)

\* With the join polled after every event, no error and right not closed:
\* each item of left taken, if right had been given an item before it, is
\* paired with the last such item.
ExpectedPairs ==
    LET places == SelectSeq([n \in 1..Consumed |-> n], LAMBDA n : rights_at[n] > 0)
    IN  [k \in 1..Len(places) |-> <<places[k] - 1, Letters[rights_at[places[k]]]>>]

NoErrorSoFar ==
    /\ terminal # "error"
    /\ AllItems(left.buf)
    /\ AllItems(right.buf)

\* C7: the pair a call returns holds the one item of left the call took and
\* the last value other.latest() yielded, in this call or before; pairs come
\* in the order of left; with no value yielded yet no pair was returned; and
\* polled after every event, as with left 0, 1, 2 and right A between 0 and 1,
\* B and C between 1 and 2, the pairs are those of the items of left that came
\* after an item of right, each with the last one before it: (1, A), (2, C).
C7_Pairing ==
    /\ (WlPolled /\ IsItem(wl_ret.res)) =>
          /\ yielded # None
          /\ Pair[2] = yielded[1]
          /\ Len(wl_taken.left) = 1
          /\ IsItem(wl_taken.left[1])
          /\ Pair[1] = wl_taken.left[1][2][1]
    /\ yielded = None => emitted = <<>>
    /\ \A m, n \in DOMAIN emitted : m < n => emitted[m][1] < emitted[n][1]
    /\ (paced # "late" /\ NoErrorSoFar /\ ~right.closed) => emitted = ExpectedPairs

\* The run of the example: left 0, right A, left 1, right B, right C, left 2,
\* a poll after each.
C7_Witness ==
    /\ paced = "polled"
    /\ rights_at = <<0, 1, 3>>
    /\ emitted = <<<<1, "A">>, <<2, "C">>>>

\* C8: a call in which left or right reports an error returns an error, one
\* of those reported, and leaves the join Done, whatever else the round held;
\* every call after the join returned an error returns the end of the stream
\* and polls neither stream.
C8_ErrorTerminal ==
    WlPolled =>
        /\ (wl_ret.after = "no" /\ (MetError(wl_taken.left) \/ MetError(wl_taken.right))) =>
              /\ IsErr(wl_ret.res)
              /\ \/ MetError(wl_taken.left) /\ wl_ret.res[2][1] \in LeftErrors
                 \/ MetError(wl_taken.right) /\ wl_ret.res[2][1] \in RightErrors
              /\ wl_state.tag = "Done"
        /\ IsErr(wl_ret.res) => (MetError(wl_taken.left) \/ MetError(wl_taken.right))
        /\ wl_ret.after = "error" =>
              /\ IsEnd(wl_ret.res)
              /\ left.polls = 0 /\ right.polls = 0
              /\ wl_state.tag = "Done"

\* A call after the join returned an error, with a pair returned before and
\* events of both streams waiting.
C8_Witness ==
    /\ WlPolled /\ wl_ret.after = "error"
    /\ emitted # <<>>
    /\ left.buf # <<>> /\ right.buf # <<>>

\* left was polled and reported its end in the last call.
LeftEnded == left.closed /\ left.buf = <<>> /\ left.polls > Len(wl_taken.left)

\* C9: a call in which left reports the end of the stream, and neither stream
\* an error, returns the end of the stream and leaves the join Done, whatever
\* right returned and whatever is cached; every call after the join returned
\* the end returns the end and polls neither stream.
C9_EndsWithPrimary ==
    WlPolled =>
        /\ (wl_ret.after = "no" /\ LeftEnded
              /\ ~MetError(wl_taken.left) /\ ~MetError(wl_taken.right)) =>
              /\ IsEnd(wl_ret.res)
              /\ wl_state.tag = "Done"
        /\ wl_ret.after = "end" =>
              /\ IsEnd(wl_ret.res)
              /\ left.polls = 0 /\ right.polls = 0
              /\ wl_state.tag = "Done"

\* left ends in a call in which right yields a value, with a value cached
\* from before.
C9_Witness ==
    /\ WlPolled /\ wl_ret.after = "no" /\ LeftEnded
    /\ IsEnd(wl_ret.res)
    /\ emitted # <<>>
    /\ wl_taken.right # <<>> /\ AllItems(wl_taken.right)

\* other.latest() has reported the end of the stream and never yielded a value.
SilentSecondary == ends.other /\ yielded = None

\* C11: once other.latest() has reported the end without ever having yielded
\* a value, the join returns no pair; a call, this one included, takes every
\* item the main stream has ready and returns NotReady with the main stream
\* not ready, the end with the main stream at its end, and the error of the
\* main stream if it meets one.
C11_SilentSecondary ==
    SilentSecondary =>
        /\ emitted = <<>>
        /\ (WlPolled /\ wl_ret.after = "no") =>
              /\ ~IsItem(wl_ret.res)
              /\ MetError(wl_taken.left) <=> IsErr(wl_ret.res)
              /\ ~MetError(wl_taken.left) =>
                    /\ left.buf = <<>>
                    /\ IsNotReady(wl_ret.res) <=> ~left.closed
                    /\ IsEnd(wl_ret.res) <=> left.closed

\* A call that discards two items of the main stream and then meets its end,
\* after a call that discarded one and found the main stream not ready.
C11_Witness ==
    /\ SilentSecondary
    /\ WlPolled /\ wl_ret.after = "no" /\ IsEnd(wl_ret.res)
    /\ Len(wl_taken.left) = 2
    /\ left.sent = 3
    /\ wl_ret.ended.other

(***************************************************************************)
(* Further properties of group_by                                           *)
(***************************************************************************)
\* C12: an error the GroupBy has returned is the last thing it returned, no
\* group and no second error after it; and every later call of the GroupBy
\* returns the end of the stream.
C12_ErrorTerminal ==
    /\ \A n \in DOMAIN announced : IsErr(announced[n]) => n = Len(announced)
    /\ (ret.op = "group_by" /\ Errs(announced) > 0 /\ ~IsErr(ret.res)) =>
          IsEnd(ret.res)

\* The items a sequence holds.
Range(seq) == {seq[n] : n \in DOMAIN seq}

\* C14: in every state, whatever the interleaving of the calls of the GroupBy,
\* of the Group handles and of their drops, the items returned by the handle
\* of a live slot followed by those in the slot's queue are exactly the items
\* of the slot's key pulled from the source, in the order of the source; no
\* item is in two queues, none is both in a queue and returned.
C14_Buffering ==
    /\ \A i \in DOMAIN pending_items : pending_items[i] # None =>
          returned[i] \o Queued(i) = OfKey(ItemsOf(pulled), SlotKey(i))
    /\ \A i, j \in DOMAIN pending_items :
          /\ i # j => Range(Queued(i)) \cap Range(Queued(j)) = {}
          /\ Range(Queued(i)) \cap Range(returned[j]) = {}

\* A handle that has returned an item and has another queued, while the item
\* of another key waits in its queue.
C14_Witness ==
    \E i, j \in DOMAIN pending_items :
        /\ i # j
        /\ returned[i] # <<>> /\ Queued(i) # <<>>
        /\ Queued(j) # <<>>

\* All the items of the source, pulled or not yet.
SourceItems == ItemsOf(pulled) \o ItemsOf(stream.buf)

\* A Group handle is held and has been polled alone up to its end: it has
\* returned all the source's items of its key.
AloneComplete ==
    \E i \in DOMAIN handles :
        /\ ended[i]
        /\ returned[i] = OfKey(SourceItems, SlotKey(i))

\* Everything pulled is kept: each item returned by, or in the queue of, the
\* slot of its key, in the order of the source, and each key announced or
\* pending once.
Buffered ==
    /\ \A x \in Range(ItemsOf(pulled)) :
          /\ callback(x) \in DOMAIN group_indices
          /\ Announcements(callback(x)) = 1
    /\ \A i \in DOMAIN pending_items :
          returned[i] \o Queued(i) = OfKey(ItemsOf(pulled), SlotKey(i))

\* Every handle has returned all the source's items of its key and the end.
AllDelivered ==
    /\ AllEnded
    /\ \A x \in Range(SourceItems) : callback(x) \in DOMAIN group_indices
    /\ \A i \in DOMAIN handles : returned[i] = OfKey(SourceItems, SlotKey(i))

\* No call after the end of the handle polled alone takes anything from the
\* source.
NothingPulledAfter == [][AloneEnded => pulled' = pulled]_vars

\* C15: with a finite source of items that is always ready, a Group handle
\* polled alone returns all the source's items of its key and then the end,
\* and by then the source is at its end and everything pulled is kept for
\* the others; nothing is pulled while it is kept, and the GroupBy and the
\* other handles, polled afterwards, deliver all of it without the source
\* yielding anything more.
C15_SingleConsumer ==
    /\ (\E i \in DOMAIN handles : handles[i] = "held") ~> AloneComplete
    /\ [](Buffered /\ (AloneEnded => (AloneComplete /\ SourceDone)))
    /\ NothingPulledAfter
    /\ AloneEnded ~> AllDelivered

\* The handle of the second key, polled alone, has returned its one item and
\* the end, having pulled a later item of the first key and an item of a new
\* key: the first waits in its queue, the new key for its announcement.
C15_Witness ==
    /\ Len(pending_items) = 3
    /\ ended = <<FALSE, TRUE, FALSE>>
    /\ returned = <<<<>>, <<Word(2, 2)>>, <<>>>>
    /\ handles = <<"held", "held", "pending">>
    /\ Queued(1) # <<>> /\ Queued(3) # <<>>
    /\ pending_groups # <<>>

\* The place in the source of the first item of a key.
FirstSeen(key) ==
    CHOOSE n \in DOMAIN ItemsOf(pulled) :
        /\ callback(ItemsOf(pulled)[n]) = key
        /\ \A m \in 1..(n - 1) : callback(ItemsOf(pulled)[m]) # key

\* The keys of the map are those of the items pulled, their indices are the
\* positions of the slot table, one each, in the order in which the keys were
\* first seen.
IndicesInOrder ==
    /\ DOMAIN group_indices = {callback(x) : x \in Range(ItemsOf(pulled))}
    /\ {group_indices[k] : k \in DOMAIN group_indices} = 0..(Len(pending_items) - 1)
    /\ \A k1, k2 \in DOMAIN group_indices :
          /\ k1 # k2 => group_indices[k1] # group_indices[k2]
          /\ group_indices[k1] < group_indices[k2] <=> FirstSeen(k1) < FirstSeen(k2)

\* A step keeps every entry of the map and every slot, and gives each new key
\* an index from the number of slots there were on.
IndicesKept ==
    /\ Len(pending_items') >= Len(pending_items)
    /\ \A k \in DOMAIN group_indices :
          k \in DOMAIN group_indices' /\ group_indices'[k] = group_indices[k]
    /\ \A k \in DOMAIN group_indices' :
          k \notin DOMAIN group_indices =>
              /\ group_indices'[k] >= Len(pending_items)
              /\ group_indices'[k] < Len(pending_items')

\* C16: the indices of the keys are 0, 1, 2, ... in the order in which the keys
\* were first seen in the source, one key per index and one slot per key; no
\* step changes or removes an entry of the map or a slot of the table, also
\* after the drop of a slot's handle, and a new key gets the next index.
C16_SlotIndices == []IndicesInOrder /\ [][IndicesKept]_vars

\* Three keys with the indices 0, 1, 2, the handle of the first dropped before
\* the third was seen.
C16_Witness ==
    /\ Len(pending_items) = 3
    /\ pending_items[1] = None
    /\ released = <<>> /\ discarded = <<>>
    /\ returned[1] = <<Word(1, 2)>>
    /\ group_indices[2] = 0
    /\ Cardinality(DOMAIN group_indices) = 3

\* A call of a Group handle that only takes the front item of its queue.
Dequeued(index) ==
    /\ ret'.res = Ready(Some(Head(Queued(index + 1))))
    /\ pending_items' =
          [pending_items EXCEPT ![index + 1] = Some(Tail(Queued(index + 1)))]
    /\ stream'.polls = 0
    /\ stream'.buf = stream.buf
    /\ pulled' = pulled
    /\ group_indices' = group_indices
    /\ pending_groups' = pending_groups
    /\ returned'[index + 1] = Append(returned[index + 1], Head(Queued(index + 1)))

\* C17: a call of a Group handle whose queue is not empty returns the front
\* item of the queue and removes that item and no other; it does not poll the
\* source, so pulls and classifies nothing, and leaves the other queues, the
\* map of the keys and the pending announcements as they were.
C17_DequeueFrame ==
    [][\A index \in 0..(MaxArrivals - 1) :
          (PollGroup(index) /\ Queued(index + 1) # <<>>) => Dequeued(index)]_vars

\* A call has returned an item from a queue of two, with an item ready in the
\* source and not pulled.
C17_Witness ==
    /\ ret.op = "group" /\ IsItem(ret.res)
    /\ stream.polls = 0
    /\ stream.buf # <<>>
    /\ \E i \in DOMAIN pending_items :
          /\ returned[i] # <<>>
          /\ returned[i][Len(returned[i])] = ret.res[2][1]
          /\ Queued(i) # <<>>

\* The Group handle of a slot waits in a pending announcement.
InPending(i) ==
    \E n \in DOMAIN pending_groups :
        pending_groups[n] = OkGroup(SlotKey(i), i - 1)

\* C19: in every state the slot of a Group handle that is held by a caller or
\* waits in a pending announcement holds a queue, not None; the handles that
\* wait are those of the pending announcements; every index of the map is a
\* position of the slot table; and no call has ended in unreachable!().
C19_LiveHandles ==
    /\ Len(handles) = Len(pending_items)
    /\ \A i \in DOMAIN handles :
          /\ handles[i] \in {"held", "pending"} => pending_items[i] # None
          /\ handles[i] = "pending" <=> InPending(i)
    /\ \A k \in DOMAIN group_indices : group_indices[k] + 1 \in DOMAIN pending_items
    /\ ret.res[1] # "Panic"

\* A handle held whose call has just pulled the first item of a new key, past
\* the slot of a dropped handle: one slot None, one read, one pending.
C19_Witness ==
    /\ ret.op = "group"
    /\ handles = <<"dropped", "held", "pending">>
    /\ returned[2] # <<>>

(***************************************************************************)
(* Further properties of latest                                             *)
(***************************************************************************)
\* C20: a call of Latest::poll in which the stream reports an error, at the
\* first poll or after items, returns that error, the last event it took; a
\* call returns an error only if the stream reported one in it; and no item
\* taken by a call that returned an error is returned by any call.
C20_ErrorInDrain ==
    /\ lt_ret.op = "poll" =>
          /\ MetError(lt_taken) <=> IsErr(lt_ret.res)
          /\ MetError(lt_taken) =>
                /\ lt_ret.res = lt_taken[Len(lt_taken)]
                /\ AllItems(SubSeq(lt_taken, 1, Len(lt_taken) - 1))
                /\ Range(ItemsOf(lt_taken)) \subseteq Range(lt_lost)
    /\ Range(lt_lost) \cap Range(lt_returned) = {}

\* A call that took an item and then an error, and a later call that returned
\* the item that came after the error.
C20_Witness ==
    /\ lt_ret.op = "poll" /\ IsItem(lt_ret.res)
    /\ lt_lost = <<"A">>
    /\ lt_returned = <<"C">>

(***************************************************************************)
(* Further properties of with_latest_from                                   *)
(***************************************************************************)
\* The last call was one round in which the main stream was not ready.
LeftNotReady ==
    /\ WlPolled /\ wl_ret.after = "no"
    /\ IsNotReady(wl_ret.res)
    /\ wl_taken.left = <<>>

\* other.latest() yielded a value in the last call: the last item taken.
Fresh ==
    IF wl_taken.right # <<>> /\ AllItems(wl_taken.right)
    THEN wl_taken.right[Len(wl_taken.right)][2] ELSE None

\* C13: a round with the main stream not ready leaves in the cache the value
\* other.latest() yielded in it, and with none yielded the value cached
\* before, also when other.latest() reports its end; a cached value is never
\* lost while the join is in progress; and a call that takes an item of the
\* main stream, after a value was yielded, returns it paired with the last
\* value yielded, whether or not the other stream has ended since.
C13_CachePersists ==
    /\ LeftNotReady =>
          CacheOf(wl_state) = (IF Fresh # None THEN Fresh ELSE wl_ret.cache)
    /\ (WlPolled /\ wl_ret.cache # None /\ wl_state.tag = "InProgress") =>
          CacheOf(wl_state) # None
    /\ (WlPolled /\ wl_ret.after = "no" /\ yielded # None
           /\ wl_taken.left # <<>> /\ IsItem(wl_taken.left[1])
           /\ ~MetError(wl_taken.right)) =>
          /\ IsItem(wl_ret.res)
          /\ Pair = <<wl_taken.left[1][2][1], yielded[1]>>

\* C18: a call of the join polls neither the main stream nor the stream under
\* other.latest() once that stream has reported its end to an earlier call,
\* and polls no stream again in the call in which it reports its end.
C18_NoRepoll ==
    WlPolled =>
        /\ wl_ret.ended.left => left.polls = 0
        /\ wl_ret.ended.right => right.polls = 0
        /\ left.polls <= Len(wl_taken.left) + 1
        /\ right.polls <= Len(wl_taken.right) + 1

(***************************************************************************)
(* Properties of enumerate                                                  *)
(***************************************************************************)
\* C21: the k-th pair Enumerate::poll returned, k from 0, is k with the k-th
\* item of the stream; the counter is the number of pairs returned; a call
\* that returns a pair returns the counter it found and leaves it one higher,
\* a call that returns NotReady, the end or an error leaves it as it was.
C21_RunningCounter ==
    /\ Len(en_returned) = Len(ItemsOf(en_pulled))
    /\ \A k \in DOMAIN en_returned :
          en_returned[k] = <<k - 1, ItemsOf(en_pulled)[k]>>
    /\ enumerate.i = Len(en_returned)
    /\ en_ret.op = "poll" =>
          IF IsItem(en_ret.res)
          THEN /\ en_ret.res[2][1][1] = en_ret.i
               /\ enumerate.i = en_ret.i + 1
          ELSE enumerate.i = en_ret.i

\* Two pairs returned with an error of the stream between them, and then a
\* call that found the stream at its end.
C21_Witness ==
    /\ en_ret.op = "poll" /\ IsEnd(en_ret.res)
    /\ MetError(en_pulled)
    /\ en_returned = <<<<0, "A">>, <<1, "C">>>>

====
